---- MODULE Spec2Model ----
(***************************************************************************)
(* Model of dashboard/services.py, get_repo_health_metrics: the quota      *)
(* guard, the repository resolver, the metric collectors and the           *)
(* classifier.  The remote platform (PyGithub) is the environment: every   *)
(* remote call either returns a value drawn from a small set or raises.    *)
(*                                                                         *)
(* Numbers.  A metric is a record [isnum, n, s]: a number n or a string s  *)
(* (the code stores "N/A" / "Processing..." in the same dictionary slot).  *)
(* The rounded averages are kept as fixed-point integers: hours and        *)
(* latency days in hundredths (round(x, 2)), issue age in tenths           *)
(* (round(x, 1)); thresholds are scaled by the same factor.                *)
(***************************************************************************)
EXTENDS Integers, Sequences, FiniteSets, TLC

VARIABLES pc, calls, rate_limit_remaining, metrics, result, exc, outcome,
          arg

vars == <<pc, calls, rate_limit_remaining, metrics, result, exc, outcome, arg>>

(***************************************************************************)
(* Bounds of the model.                                                    *)
(***************************************************************************)
MaxQuota == 6
MaxItems == 2
MaxRuns == 3
MaxContributors == 4
MaxHours == 73
MaxLatencyDays == 8
MaxAgeDays == 91
MaxBusFactor == 11

(***************************************************************************)
(* Program constants.                                                      *)
(***************************************************************************)
SampleLimit == 20
HoursScale == 100
LatencyScale == 100
AgeScale == 10

(***************************************************************************)
(* Values.                                                                 *)
(***************************************************************************)
Num(n) == [isnum |-> TRUE, n |-> n, s |-> ""]
Str(s) == [isnum |-> FALSE, n |-> 0, s |-> s]
NA == Str("N/A")
Processing == Str("Processing...")

None == "<None>"
NoDate == [month |-> 0, day |-> 0, year |-> 0]

NoExc == [type |-> "none", status |-> 0]
GithubException(status) == [type |-> "GithubException", status |-> status]
OtherException == [type |-> "ConnectionError", status |-> 0]

Bands == {"success", "warning", "danger", "secondary"}

RECURSIVE Sum(_)
Sum(s) == IF s = <<>> THEN 0 ELSE Head(s) + Sum(Tail(s))

Take(s, k) == SubSeq(s, 1, IF Len(s) < k THEN Len(s) ELSE k)

\* round(a / b) for b > 0, ties to even, as Python's round().  Exact on the
\* environment's timestamps: their means never sit on a decimal tie that
\* binary floating point cannot represent.
Round(a, b) ==
    LET q == a \div b
        r == a % b
    IN  IF 2 * r < b THEN q
        ELSE IF 2 * r > b THEN q + 1
        ELSE IF q % 2 = 0 THEN q ELSE q + 1

(***************************************************************************)
(* Repository attributes and the data container (services.py 44-67).       *)
(***************************************************************************)
MonthAbbr == <<"Jan", "Feb", "Mar", "Apr", "May", "Jun",
               "Jul", "Aug", "Sep", "Oct", "Nov", "Dec">>

\* pushed_at.strftime("%b %d, %Y"): the day is zero-padded to two digits.
StrfTime(d) ==
    MonthAbbr[d.month] \o " "
        \o (IF d.day < 10 THEN "0" \o ToString(d.day) ELSE ToString(d.day))
        \o ", " \o ToString(d.year)

DataContainer(repo, remaining) ==
    [repo_name |-> repo.full_name,
     stars |-> repo.stargazers_count,
     forks |-> repo.forks_count,
     open_issues |-> repo.open_issues_count,
     avg_response_time_hours |-> NA,
     avg_pr_latency_days |-> NA,
     total_contributors |-> NA,
     bus_factor |-> NA,
     rate_limit_remaining |-> remaining,
     last_commit_date |->
         IF repo.pushed_at # NoDate THEN StrfTime(repo.pushed_at) ELSE "N/A",
     avg_issue_age_days |-> NA,
     health_percentage |-> 0,
     language |-> IF repo.language \in {None, ""} THEN "N/A" ELSE repo.language,
     license |-> IF repo.license # None THEN repo.license ELSE "Unspecified",
     bus_factor_color |-> "secondary",
     response_time_color |-> "secondary",
     latency_color |-> "secondary",
     health_color |-> "secondary",
     age_color |-> "secondary"]

MetricFields ==
    {"repo_name", "stars", "forks", "open_issues", "avg_response_time_hours",
     "avg_pr_latency_days", "total_contributors", "bus_factor",
     "rate_limit_remaining", "last_commit_date", "avg_issue_age_days",
     "health_percentage", "language", "license", "bus_factor_color",
     "response_time_color", "latency_color", "health_color", "age_color"}

BandFields ==
    {"bus_factor_color", "response_time_color", "latency_color",
     "health_color", "age_color"}

(***************************************************************************)
(* The quota guard (services.py 21-33).                                    *)
(***************************************************************************)
\* rate_limit.resources.core.remaining, else getattr(rate_limit.core,
\* "remaining", 0) when the object has no .resources.
RateLimitRemaining(rate_limit) ==
    IF rate_limit.shape = "resources" THEN rate_limit.remaining
    ELSE IF rate_limit.shape = "core" THEN rate_limit.remaining
    ELSE 0

\* The guard with its threshold one short.
QuotaExhaustedOffByOne(remaining) == remaining < 4

QuotaExhausted(remaining) == remaining < 5

RateLimitReport(remaining) ==
    [error |-> [text |-> "API Rate Limit Warning: Only {} requests remaining. Please wait one hour or provide a new token.",
                quoted |-> remaining],
     rate_limit_remaining |-> remaining]

(***************************************************************************)
(* The repository resolver's error report (services.py 35-41).             *)
(***************************************************************************)
\* The error report without the observed quota.
ResolveErrorReportNoQuota(e, remaining) ==
    [error |-> [text |-> "Repository not found, private, or unknown GitHub error: {}",
                quoted |-> e.status]]

ResolveErrorReport(e, remaining) ==
    [error |-> [text |-> "Repository not found, private, or unknown GitHub error: {}",
                quoted |-> e.status],
     rate_limit_remaining |-> remaining]

(***************************************************************************)
(* METRIC 1: response time, and open-issue age (services.py 69-101).       *)
(* An issue is [pull_request, created_at, comments_exc, comments]:         *)
(* comments is the sequence of the comments' created_at, comments_exc the  *)
(* exception issue.get_comments() / totalCount raises (NoExc: none).       *)
(***************************************************************************)
\* The issues the loop of lines 75-83 asks the comments of.
CommentedIssues(issues_closed) ==
    SelectSeq(issues_closed, LAMBDA issue : ~issue.pull_request)

RECURSIVE FirstCommentExc(_)
FirstCommentExc(issues) ==
    IF issues = <<>> THEN NoExc
    ELSE IF Head(issues).comments_exc # NoExc THEN Head(issues).comments_exc
    ELSE FirstCommentExc(Tail(issues))

ResponseTimes(issues_closed) ==
    LET answered == SelectSeq(CommentedIssues(issues_closed),
                              LAMBDA issue : Len(issue.comments) > 0)
    IN  [k \in 1..Len(answered) |->
            answered[k].comments[1] - answered[k].created_at]

ResponseTimeMetric(m, listing) ==
    LET issues_closed == Take(listing, SampleLimit)
        response_times == ResponseTimes(issues_closed)
    IN  IF response_times # <<>>
        THEN [m EXCEPT !.avg_response_time_hours =
                 Num(Round(Sum(response_times) * HoursScale,
                           Len(response_times) * 3600))]
        ELSE m

IssueAges(issues_open, now) ==
    LET true_issues == SelectSeq(issues_open, LAMBDA issue : ~issue.pull_request)
    IN  [k \in 1..Len(true_issues) |-> now - true_issues[k].created_at]

IssueAgeMetric(m, issues_open, now) ==
    LET issue_ages == IssueAges(issues_open, now)
    IN  IF issue_ages # <<>>
        THEN [m EXCEPT !.avg_issue_age_days =
                 Num(Round(Sum(issue_ages) * AgeScale, Len(issue_ages) * 86400))]
        ELSE m

(***************************************************************************)
(* METRIC 2: review latency (services.py 103-116).                         *)
(* A pull request is [created_at, merged, merged_at, closed_at]; a missing *)
(* timestamp (Python None) is NoneTime.                                    *)
(***************************************************************************)
NoneTime == -1

PrLatencies(pulls) ==
    LET EndTime(pr) == IF pr.merged THEN pr.merged_at ELSE pr.closed_at
        ended == SelectSeq(pulls, LAMBDA pr : EndTime(pr) # NoneTime)
    IN  [k \in 1..Len(ended) |-> EndTime(ended[k]) - ended[k].created_at]

\* The metric without the test of line 114: an empty sample averages to 0.
LatencyMetricUnguarded(m, listing) ==
    LET pr_latencies == PrLatencies(Take(listing, SampleLimit))
    IN  [m EXCEPT !.avg_pr_latency_days =
            IF pr_latencies # <<>>
            THEN Num(Round(Sum(pr_latencies) * LatencyScale,
                           Len(pr_latencies) * 86400))
            ELSE Num(0)]

LatencyMetric(m, listing) ==
    LET pulls == Take(listing, SampleLimit)
        pr_latencies == PrLatencies(pulls)
    IN  IF pr_latencies # <<>>
        THEN [m EXCEPT !.avg_pr_latency_days =
                 Num(Round(Sum(pr_latencies) * LatencyScale,
                           Len(pr_latencies) * 86400))]
        ELSE m

(***************************************************************************)
(* METRIC 3 & 4: contributors and bus factor (services.py 118-164).        *)
(* A contributor entry is [author, weeks]: author is FALSE when the entry  *)
(* has no author identity (Python None), weeks the weekly additions.       *)
(***************************************************************************)
\* contributor_additions.sort(reverse=True)
RECURSIVE InsertDesc(_, _)
InsertDesc(x, s) ==
    IF s = <<>> THEN <<x>>
    ELSE IF x >= Head(s) THEN <<x>> \o s
    ELSE <<Head(s)>> \o InsertDesc(x, Tail(s))

RECURSIVE SortDesc(_)
SortDesc(s) == IF s = <<>> THEN <<>> ELSE InsertDesc(Head(s), SortDesc(Tail(s)))

TotalAdditions(contributor_stats) ==
    Sum([k \in 1..Len(contributor_stats) |-> Sum(contributor_stats[k].weeks)])

\* The per-author totals left in the order the entries came in.
ContributorAdditionsUnsorted(contributor_stats) ==
    LET authored == SelectSeq(contributor_stats, LAMBDA c : c.author)
    IN  [k \in 1..Len(authored) |-> Sum(authored[k].weeks)]

ContributorAdditions(contributor_stats) ==
    LET authored == SelectSeq(contributor_stats, LAMBDA c : c.author)
    IN  SortDesc([k \in 1..Len(authored) |-> Sum(authored[k].weeks)])

\* The loop of lines 146-151; cumulative >= total * 0.50 is compared as
\* 2 * cumulative >= total.  The value is what metrics["bus_factor"] holds
\* after the loop: old when the loop ends without reaching the target.
RECURSIVE BusFactorWalk(_, _, _, _, _)
BusFactorWalk(additions, cumulative_additions, bus_factor, total_additions, old) ==
    IF additions = <<>> THEN old
    ELSE IF 2 * (cumulative_additions + Head(additions)) >= total_additions
         THEN Num(bus_factor + 1)
    ELSE BusFactorWalk(Tail(additions), cumulative_additions + Head(additions),
                       bus_factor + 1, total_additions, old)

\* The computation without the special case of lines 153-155.
BusFactorMetricNoZeroCase(m, contributor_stats) ==
    [m EXCEPT !.bus_factor =
        BusFactorWalk(ContributorAdditions(contributor_stats), 0, 0,
                      TotalAdditions(contributor_stats), m.bus_factor)]

BusFactorMetric(m, contributor_stats) ==
    LET total_additions == TotalAdditions(contributor_stats)
        contributor_additions == ContributorAdditions(contributor_stats)
        walked == BusFactorWalk(contributor_additions, 0, 0, total_additions,
                                m.bus_factor)
    IN  [m EXCEPT !.bus_factor = IF total_additions = 0 THEN Num(1) ELSE walked]

\* except GithubException as e (lines 157-164)
ContributorsFailed(m, e) ==
    IF e.status = 202
    THEN [m EXCEPT !.bus_factor = Processing, !.total_contributors = Processing]
    ELSE [m EXCEPT !.bus_factor = NA, !.total_contributors = NA]

(***************************************************************************)
(* Community health score (services.py 166-174).                           *)
(***************************************************************************)
NoneInt == -1

\* community_profile.health_percentage or 0; any exception gives 0.
HealthMetric(m, e, health_percentage) ==
    IF e # NoExc THEN [m EXCEPT !.health_percentage = 0]
    ELSE [m EXCEPT !.health_percentage =
             IF health_percentage \in {NoneInt, 0} THEN 0 ELSE health_percentage]

(***************************************************************************)
(* The classifier (services.py 176-223).  Each operator gives the band the *)
(* code leaves in the field, whose initial value is "secondary".           *)
(***************************************************************************)
BusFactorColor(bus_factor_level) ==
    IF bus_factor_level.isnum
    THEN IF bus_factor_level.n < 3 THEN "danger"
         ELSE IF bus_factor_level.n < 10 THEN "warning"
         ELSE "success"
    ELSE "secondary"

\* The first threshold taken inclusive.
ResponseTimeColorInclusive(response_time_level) ==
    IF response_time_level.isnum
    THEN IF response_time_level.n <= 24 * HoursScale THEN "success"
         ELSE IF response_time_level.n < 72 * HoursScale THEN "warning"
         ELSE "danger"
    ELSE "secondary"

ResponseTimeColor(response_time_level) ==
    IF response_time_level.isnum
    THEN IF response_time_level.n < 24 * HoursScale THEN "success"
         ELSE IF response_time_level.n < 72 * HoursScale THEN "warning"
         ELSE "danger"
    ELSE "secondary"

LatencyColor(latency_level) ==
    IF latency_level.isnum
    THEN IF latency_level.n < 3 * LatencyScale THEN "success"
         ELSE IF latency_level.n < 7 * LatencyScale THEN "warning"
         ELSE "danger"
    ELSE "secondary"

HealthColor(health_level) ==
    IF health_level >= 80 THEN "success"
    ELSE IF health_level >= 50 THEN "warning"
    ELSE "danger"

AgeColor(issue_age_level) ==
    IF issue_age_level.isnum
    THEN IF issue_age_level.n < 30 * AgeScale THEN "success"
         ELSE IF issue_age_level.n < 90 * AgeScale THEN "warning"
         ELSE "danger"
    ELSE "secondary"

Classify(m) ==
    [m EXCEPT !.bus_factor_color = BusFactorColor(m.bus_factor),
              !.response_time_color = ResponseTimeColor(m.avg_response_time_hours),
              !.latency_color = LatencyColor(m.avg_pr_latency_days),
              !.health_color = HealthColor(m.health_percentage),
              !.age_color = AgeColor(m.avg_issue_age_days)]

(***************************************************************************)
(* The environment: what the remote calls may answer.                      *)
(***************************************************************************)
CallNames ==
    {"get_rate_limit", "get_repo", "get_issues_closed", "get_comments",
     "get_issues_open", "get_pulls", "get_contributors",
     "get_stats_contributors", "get_community_profile"}

Failures == {GithubException(202), GithubException(404), OtherException}
Outcomes == {NoExc} \cup Failures

RateLimits ==
    [shape : {"resources", "core"}, remaining : 0..MaxQuota]
        \cup {[shape |-> "bare", remaining |-> 0]}

Repos ==
    {[full_name |-> "octo/full", stargazers_count |-> 7, forks_count |-> 2,
      open_issues_count |-> 3, language |-> "Python", license |-> "MIT License",
      pushed_at |-> [month |-> 3, day |-> 5, year |-> 2024]],
     [full_name |-> "octo/bare", stargazers_count |-> 0, forks_count |-> 0,
      open_issues_count |-> 0, language |-> None, license |-> None,
      pushed_at |-> NoDate]}

\* Listings are sorted by creation, newest first: the item at position i was
\* created i * Gap seconds before Epoch, and the clock reads Epoch when the
\* ages are taken.
Gap == 6 * 3600
Epoch == 1000 * 86400
Now == Epoch + 60

SeqsUpTo(S, n) == UNION {[1..k -> S] : k \in 0..n}

RECURSIVE Flatten(_)
Flatten(runs) ==
    IF runs = <<>> THEN <<>>
    ELSE [k \in 1..Head(runs).count |-> Head(runs).item] \o Flatten(Tail(runs))

\* Issue templates: a pull-request entry, an issue nobody commented, an
\* issue first commented after delay seconds.
IssueTemplates(excs, delays) ==
    [pull_request : BOOLEAN, comments_exc : excs, delay : delays \cup {NoneTime}]

IssueAt(t, i) ==
    [pull_request |-> t.pull_request,
     created_at |-> Epoch - i * Gap,
     comments_exc |-> t.comments_exc,
     comments |-> IF t.delay = NoneTime THEN <<>>
                  ELSE <<Epoch - i * Gap + t.delay>>]

\* Pull-request templates: merged after d seconds, closed unmerged after d
\* seconds, closed unmerged with no close timestamp.
PullTemplates(delays) ==
    [merged : {TRUE}, delay : delays]
        \cup [merged : {FALSE}, delay : delays \cup {NoneTime}]

PullAt(t, i) ==
    LET end == IF t.delay = NoneTime THEN NoneTime ELSE Epoch - i * Gap + t.delay
    IN  [created_at |-> Epoch - i * Gap,
         merged |-> t.merged,
         merged_at |-> IF t.merged THEN end ELSE NoneTime,
         closed_at |-> end]

IssueListings(templates, counts, n) ==
    {LET flat == Flatten(runs) IN [i \in 1..Len(flat) |-> IssueAt(flat[i], i)] :
        runs \in SeqsUpTo([item : templates, count : counts], n)}

PullListings(templates, counts, n) ==
    {LET flat == Flatten(runs) IN [i \in 1..Len(flat) |-> PullAt(flat[i], i)] :
        runs \in SeqsUpTo([item : templates, count : counts], n)}

ResponseDelays == {3600, 100 * 3600}
LatencyDelays == {86400, 10 * 86400}

MainClosedIssues ==
    IssueListings({t \in IssueTemplates({NoExc, GithubException(404)}, ResponseDelays) :
                      /\ t.pull_request => t.delay = NoneTime /\ t.comments_exc = NoExc
                      /\ t.comments_exc # NoExc => t.delay = NoneTime},
                  {1}, MaxItems)
MainOpenIssues == IssueListings(IssueTemplates({NoExc}, {}), {1}, MaxItems)
MainPulls == PullListings(PullTemplates({86400}), {1}, MaxItems)
MainStats ==
    SeqsUpTo([author : BOOLEAN, weeks : {<<>>, <<1>>, <<2, 1>>}], MaxItems)
HealthValues == {NoneInt, 0, 49, 50, 80}

(***************************************************************************)
(* get_repo_health_metrics, one action per remote call and the code that   *)
(* follows it up to the next call.  calls is the set of remote calls       *)
(* issued so far, outcome what each answered (NoExc: a value), exc the     *)
(* exception that left the function (pc = "raised").                       *)
(***************************************************************************)
NoRecord == <<>>
\* What a remote call that raised hands back: nothing.
Unanswered == <<>>
NoOutcome == [c \in CallNames |-> NoExc]

Init ==
    /\ pc = "get_rate_limit"
    /\ calls = {}
    /\ rate_limit_remaining = 0
    /\ metrics = NoRecord
    /\ result = NoRecord
    /\ exc = NoExc
    /\ outcome = NoOutcome
    /\ arg = <<>>

Call(name) == [name |-> name, on |-> 0]

\* issue.get_comments() on the issues asked, up to the first that raises.
RECURSIVE CommentCalls(_)
CommentCalls(asked) ==
    IF asked = <<>> THEN {}
    ELSE {[name |-> "get_comments", on |-> Head(asked).created_at]}
            \cup (IF Head(asked).comments_exc # NoExc THEN {}
                  ELSE CommentCalls(Tail(asked)))

Issue(call, o) ==
    /\ calls' = calls \cup {Call(call)}
    /\ outcome' = [outcome EXCEPT ![call] = o]

Raise(e) ==
    /\ pc' = "raised"
    /\ exc' = e
    /\ UNCHANGED <<metrics, result>>

Return(report) ==
    /\ pc' = "done"
    /\ result' = report
    /\ UNCHANGED exc

\* lines 21-33
GetRateLimit ==
    /\ pc = "get_rate_limit"
    /\ \E o \in Outcomes :
       \E rate_limit \in IF o = NoExc THEN RateLimits ELSE {Unanswered} :
          /\ Issue("get_rate_limit", o)
          /\ IF o # NoExc
             THEN Raise(o) /\ UNCHANGED rate_limit_remaining
             ELSE /\ rate_limit_remaining' = RateLimitRemaining(rate_limit)
                  /\ IF QuotaExhausted(rate_limit_remaining')
                     THEN Return(RateLimitReport(rate_limit_remaining'))
                     ELSE pc' = "get_repo" /\ UNCHANGED <<result, exc>>
                  /\ UNCHANGED metrics
    /\ UNCHANGED arg

\* lines 35-67
GetRepo ==
    /\ pc = "get_repo"
    /\ \E o \in Outcomes :
       \E repo \in IF o = NoExc THEN Repos ELSE {Unanswered} :
          /\ Issue("get_repo", o)
          /\ IF o.type = "GithubException"
             THEN Return(ResolveErrorReport(o, rate_limit_remaining))
                  /\ UNCHANGED metrics
             ELSE IF o # NoExc THEN Raise(o)
             ELSE /\ metrics' = DataContainer(repo, rate_limit_remaining)
                  /\ pc' = "closed_issues"
                  /\ UNCHANGED <<result, exc>>
    /\ UNCHANGED <<rate_limit_remaining, arg>>

\* lines 69-87
ClosedIssues ==
    /\ pc = "closed_issues"
    /\ \E o \in Outcomes :
       \E listing \in IF o = NoExc THEN MainClosedIssues ELSE {Unanswered} :
          LET asked == CommentedIssues(Take(listing, SampleLimit))
              ce == FirstCommentExc(asked)
          IN  IF o # NoExc THEN Issue("get_issues_closed", o) /\ Raise(o)
              ELSE /\ calls' = calls \cup {Call("get_issues_closed")}
                             \cup CommentCalls(asked)
                   /\ outcome' = [outcome EXCEPT !["get_comments"] = ce]
                   /\ IF ce # NoExc THEN Raise(ce)
                      ELSE /\ metrics' = ResponseTimeMetric(metrics, listing)
                           /\ pc' = "open_issues"
                           /\ UNCHANGED <<result, exc>>
    /\ UNCHANGED <<rate_limit_remaining, arg>>

\* lines 89-101
OpenIssues ==
    /\ pc = "open_issues"
    /\ \E o \in Outcomes :
       \E listing \in IF o = NoExc THEN MainOpenIssues ELSE {Unanswered} :
          /\ Issue("get_issues_open", o)
          /\ IF o # NoExc THEN Raise(o)
             ELSE /\ metrics' = IssueAgeMetric(metrics, listing, Now)
                  /\ pc' = "pulls"
                  /\ UNCHANGED <<result, exc>>
    /\ UNCHANGED <<rate_limit_remaining, arg>>

\* lines 103-116
Pulls ==
    /\ pc = "pulls"
    /\ \E o \in Outcomes :
       \E listing \in IF o = NoExc THEN MainPulls ELSE {Unanswered} :
          /\ Issue("get_pulls", o)
          /\ IF o # NoExc THEN Raise(o)
             ELSE /\ metrics' = LatencyMetric(metrics, listing)
                  /\ pc' = "contributors"
                  /\ UNCHANGED <<result, exc>>
    /\ UNCHANGED <<rate_limit_remaining, arg>>

\* lines 118-164: get_contributors().totalCount answers count or raises
\* o1; only then get_stats_contributors() answers stats or raises o2.
Contributors ==
    /\ pc = "contributors"
    /\ \E o1 \in Outcomes :
       \E count \in IF o1 = NoExc THEN {0, MaxItems} ELSE {0} :
       \E o2 \in IF o1 = NoExc THEN Outcomes ELSE {NoExc} :
       \E contributor_stats \in IF o1 = NoExc /\ o2 = NoExc
                                THEN MainStats ELSE {Unanswered} :
          LET e == IF o1 # NoExc THEN o1 ELSE o2
              counted == [metrics EXCEPT !.total_contributors = Num(count)]
          IN  /\ calls' = calls \cup {Call("get_contributors")}
                     \cup (IF o1 = NoExc THEN {Call("get_stats_contributors")}
                           ELSE {})
              /\ outcome' = [outcome EXCEPT
                                !["get_contributors"] = o1,
                                !["get_stats_contributors"] =
                                    IF o1 = NoExc THEN o2 ELSE NoExc]
              /\ IF e = NoExc
                 THEN /\ metrics' = BusFactorMetric(counted, contributor_stats)
                      /\ pc' = "community"
                      /\ UNCHANGED <<result, exc>>
                 ELSE IF e.type = "GithubException"
                 THEN /\ metrics' = ContributorsFailed(
                                        IF o1 = NoExc THEN counted ELSE metrics, e)
                      /\ pc' = "community"
                      /\ UNCHANGED <<result, exc>>
                 ELSE Raise(e)
    /\ UNCHANGED <<rate_limit_remaining, arg>>

\* lines 166-225
Community ==
    /\ pc = "community"
    /\ \E o \in Outcomes :
       \E health_percentage \in IF o = NoExc THEN HealthValues ELSE {NoneInt} :
          /\ Issue("get_community_profile", o)
          /\ metrics' = Classify(HealthMetric(metrics, o, health_percentage))
          /\ Return(metrics')
    /\ UNCHANGED <<rate_limit_remaining, arg>>

Next ==
    \/ GetRateLimit
    \/ GetRepo
    \/ ClosedIssues
    \/ OpenIssues
    \/ Pulls
    \/ Contributors
    \/ Community

Spec == Init /\ [][Next]_vars

(***************************************************************************)
(* The collectors alone, on listings long enough for the 20-item slice to  *)
(* cut: a listing is up to MaxRuns runs of 1, 19 or 20 equal items.  arg   *)
(* is the listing, result the sample the collector built, calls the        *)
(* comment queries it made.                                                *)
(***************************************************************************)
RunCounts == {1, SampleLimit - 1, SampleLimit}
SomeRepo == CHOOSE repo \in Repos : repo.pushed_at # NoDate

CollectIssues ==
    IssueListings({t \in IssueTemplates({NoExc}, ResponseDelays) :
                      t.pull_request => t.delay = NoneTime},
                  RunCounts, MaxRuns)
CollectPulls == PullListings(PullTemplates(LatencyDelays), RunCounts, MaxRuns)

InitCollect ==
    /\ pc = "collect"
    /\ arg \in [kind : {"issues"}, items : CollectIssues]
                  \cup [kind : {"pulls"}, items : CollectPulls]
    /\ metrics = DataContainer(SomeRepo, 5)
    /\ calls = {}
    /\ rate_limit_remaining = 5
    /\ result = <<>>
    /\ exc = NoExc
    /\ outcome = NoOutcome

CollectResponseTime ==
    /\ pc = "collect"
    /\ arg.kind = "issues"
    /\ metrics' = Classify(ResponseTimeMetric(metrics, arg.items))
    /\ result' = ResponseTimes(Take(arg.items, SampleLimit))
    /\ calls' = CommentCalls(CommentedIssues(Take(arg.items, SampleLimit)))
    /\ pc' = "response_time"
    /\ UNCHANGED <<rate_limit_remaining, exc, outcome, arg>>

CollectIssueAge ==
    /\ pc = "collect"
    /\ arg.kind = "issues"
    /\ metrics' = Classify(IssueAgeMetric(metrics, arg.items, Now))
    /\ result' = IssueAges(arg.items, Now)
    /\ pc' = "issue_age"
    /\ UNCHANGED <<calls, rate_limit_remaining, exc, outcome, arg>>

CollectLatency ==
    /\ pc = "collect"
    /\ arg.kind = "pulls"
    /\ metrics' = Classify(LatencyMetric(metrics, arg.items))
    /\ result' = PrLatencies(Take(arg.items, SampleLimit))
    /\ pc' = "latency"
    /\ UNCHANGED <<calls, rate_limit_remaining, exc, outcome, arg>>

NextCollect ==
    \/ CollectResponseTime
    \/ CollectIssueAge
    \/ CollectLatency

SpecCollect == InitCollect /\ [][NextCollect]_vars

(***************************************************************************)
(* The bus-factor computation alone, on the contributor statistics arg.    *)
(***************************************************************************)
WeeksSet == {<<>>, <<0>>, <<1>>, <<1, 2>>, <<5>>}
Entry(author, weeks) == [author |-> author, weeks |-> weeks]

\* The two examples of the specification's testable properties.
Example100 ==
    <<Entry(TRUE, <<100>>), Entry(TRUE, <<50>>),
      Entry(TRUE, <<30>>), Entry(TRUE, <<20>>)>>
Example100Shuffled ==
    <<Entry(TRUE, <<20>>), Entry(TRUE, <<30>>),
      Entry(TRUE, <<50>>), Entry(TRUE, <<60, 40>>)>>
Example10 ==
    <<Entry(TRUE, <<10>>), Entry(TRUE, <<10>>),
      Entry(TRUE, <<4, 6>>), Entry(TRUE, <<10>>)>>
ExampleStats == {Example100, Example100Shuffled, Example10}

BusStats ==
    SeqsUpTo([author : BOOLEAN, weeks : WeeksSet], MaxContributors)
        \cup ExampleStats

InitBus ==
    /\ pc = "bus"
    /\ arg \in BusStats
    /\ metrics = DataContainer(SomeRepo, 5)
    /\ calls = {}
    /\ rate_limit_remaining = 5
    /\ result = <<>>
    /\ exc = NoExc
    /\ outcome = NoOutcome

BusFactorStep ==
    /\ pc = "bus"
    /\ metrics' = Classify(BusFactorMetric(
                     [metrics EXCEPT !.total_contributors = Num(Len(arg))], arg))
    /\ pc' = "bus_done"
    /\ UNCHANGED <<calls, rate_limit_remaining, result, exc, outcome, arg>>

NextBus == BusFactorStep

SpecBus == InitBus /\ [][NextBus]_vars

(***************************************************************************)
(* The classifier alone: arg names a metric field and the value in it.     *)
(***************************************************************************)
Sentinels == {NA, Processing}

ClassifyInputs ==
    [field : {"bus_factor"},
     value : {Num(n) : n \in 0..MaxBusFactor} \cup Sentinels]
    \cup [field : {"avg_response_time_hours"},
          value : {Num(n) : n \in 0..(MaxHours * HoursScale)} \cup Sentinels]
    \cup [field : {"avg_pr_latency_days"},
          value : {Num(n) : n \in 0..(MaxLatencyDays * LatencyScale)} \cup Sentinels]
    \cup [field : {"avg_issue_age_days"},
          value : {Num(n) : n \in 0..(MaxAgeDays * AgeScale)} \cup Sentinels]
    \cup [field : {"health_percentage"}, value : {Num(n) : n \in 0..100}]

InitClassify ==
    /\ pc = "classify"
    /\ arg \in ClassifyInputs
    /\ metrics = IF arg.field = "health_percentage"
                 THEN [DataContainer(SomeRepo, 5) EXCEPT
                          !.health_percentage = arg.value.n]
                 ELSE [DataContainer(SomeRepo, 5) EXCEPT ![arg.field] = arg.value]
    /\ calls = {}
    /\ rate_limit_remaining = 5
    /\ result = <<>>
    /\ exc = NoExc
    /\ outcome = NoOutcome

ClassifyStep ==
    /\ pc = "classify"
    /\ metrics' = Classify(metrics)
    /\ result' = metrics'
    /\ pc' = "classified"
    /\ UNCHANGED <<calls, rate_limit_remaining, exc, outcome, arg>>

NextClassify == ClassifyStep

SpecClassify == InitClassify /\ [][NextClassify]_vars

(***************************************************************************)
(* The claims.                                                             *)
(***************************************************************************)
QuotaObserved ==
    Call("get_rate_limit") \in calls /\ outcome["get_rate_limit"] = NoExc

IsHaltReport(r) ==
    /\ DOMAIN r = {"error", "rate_limit_remaining"}
    /\ r.error.text = "API Rate Limit Warning: Only {} requests remaining. Please wait one hour or provide a new token."
    /\ r.error.quoted = rate_limit_remaining
    /\ r.rate_limit_remaining = rate_limit_remaining

\* C1: once the quota query has answered a remaining count below 5, the
\* function has returned the halt report (message quoting the count, plus the
\* quota) and the quota query is the only remote call ever issued; when the
\* count is 5 or more, the resolver call is the next call and is issued.
C1_QuotaGuard ==
    /\ (QuotaObserved /\ rate_limit_remaining < 5) =>
          /\ pc = "done"
          /\ IsHaltReport(result)
          /\ calls = {Call("get_rate_limit")}
    /\ (QuotaObserved /\ rate_limit_remaining >= 5) =>
          /\ pc = "get_repo" \/ Call("get_repo") \in calls
          /\ pc = "done" => ~IsHaltReport(result)

C1_Witness ==
    /\ pc = "done"
    /\ QuotaObserved
    /\ rate_limit_remaining = 4
    /\ IsHaltReport(result)

\* C2: no exception ever escapes get_repo_health_metrics: whatever remote
\* calls fail, the call ends by returning a record.
C2_NoExceptionEscapes == pc # "raised"

\* C3: a returned record is either an error report (error and quota only,
\* exactly when the quota is below 5 or resolution failed with a platform
\* error) or a success report (no error, every metric field, each of the
\* five bands one of success, warning, danger, secondary).
C3_ErrorOrSuccess ==
    pc = "done" =>
       IF rate_limit_remaining < 5 \/ outcome["get_repo"].type = "GithubException"
       THEN /\ DOMAIN result = {"error", "rate_limit_remaining"}
            /\ result.rate_limit_remaining = rate_limit_remaining
       ELSE /\ Call("get_repo") \in calls
            /\ DOMAIN result = MetricFields
            /\ "error" \notin DOMAIN result
            /\ \A f \in BandFields : result[f] \in Bands

C3_Witness ==
    /\ pc = "done"
    /\ outcome["get_repo"] = GithubException(404)
    /\ DOMAIN result = {"error", "rate_limit_remaining"}
    /\ rate_limit_remaining >= 5

RECURSIVE SumOver(_, _)
SumOver(S, stats) ==
    IF S = {} THEN 0
    ELSE LET k == CHOOSE x \in S : TRUE
         IN  Sum(stats[k].weeks) + SumOver(S \ {k}, stats)

Authors(stats) == {k \in 1..Len(stats) : stats[k].author}

\* Some k author totals sum to at least half of all additions.
HalfReachedBy(k, stats) ==
    \E S \in SUBSET Authors(stats) :
        /\ Cardinality(S) = k
        /\ 2 * SumOver(S, stats) >= SumOver(1..Len(stats), stats)

\* C4: with the statistics retrieved, bus_factor is the smallest k >= 1 such
\* that the k largest per-author totals reach half of total_additions (all
\* entries counted, with or without author), whatever the order of the
\* entries; [100,50,30,20] gives 1 and [10,10,10,10] gives 2.
C4_BusFactorSmallestK ==
    pc = "bus_done" =>
       /\ \A k \in 1..Len(arg) :
             (HalfReachedBy(k, arg) /\ \A j \in 1..(k - 1) : ~HalfReachedBy(j, arg))
                => metrics.bus_factor = Num(k)
       /\ arg \in {Example100, Example100Shuffled} => metrics.bus_factor = Num(1)
       /\ arg = Example10 => metrics.bus_factor = Num(2)

C4_Witness ==
    /\ pc = "bus_done"
    /\ metrics.bus_factor = Num(2)
    /\ \E k \in 1..Len(arg) : ~arg[k].author /\ Sum(arg[k].weeks) > 0
    /\ \E k \in 1..(Len(arg) - 1) :
          arg[k].author /\ arg[k + 1].author
             /\ Sum(arg[k].weeks) < Sum(arg[k + 1].weeks)

AllZero(stats) ==
    \A k \in 1..Len(stats) : \A w \in 1..Len(stats[k].weeks) : stats[k].weeks[w] = 0

\* C5: with the statistics retrieved and total_additions 0 (no entry, or
\* only zero additions, with or without author), bus_factor is exactly 1 and
\* its band is danger.
C5_ZeroAdditions ==
    (pc = "bus_done" /\ AllZero(arg)) =>
       /\ metrics.bus_factor = Num(1)
       /\ metrics.bus_factor # NA
       /\ metrics.bus_factor_color = "danger"

C5_Witness ==
    /\ pc = "bus_done"
    /\ AllZero(arg)
    /\ Len(arg) = 2
    /\ \A k \in 1..Len(arg) : ~arg[k].author
    /\ metrics.bus_factor = Num(1)
    /\ metrics.bus_factor_color = "danger"

ContributorFailure ==
    IF outcome["get_contributors"] # NoExc THEN outcome["get_contributors"]
    ELSE outcome["get_stats_contributors"]

\* C6: when either contributor call fails, the report goes on: on status 202
\* both total_contributors and bus_factor hold the processing sentinel (even
\* if the count had been read), on any other failure both hold the
\* unavailable sentinel; the two sentinels differ and the bus-factor band is
\* secondary.
C6_ContributorFailure ==
    (Call("get_contributors") \in calls /\ ContributorFailure # NoExc) =>
       /\ pc \in {"community", "done"}
       /\ Processing # NA
       /\ LET sentinel == IF ContributorFailure = GithubException(202)
                          THEN Processing ELSE NA
          IN  /\ metrics.total_contributors = sentinel
              /\ metrics.bus_factor = sentinel
       /\ pc = "done" => result.bus_factor_color = "secondary"

\* The band of a lower-is-better metric: below lo favorable, [lo, hi)
\* moderate, hi and above unfavorable; unknown for a sentinel.
TimeBand(v, scale, lo, hi) ==
    CASE ~v.isnum -> "secondary"
      [] v.isnum /\ v.n < lo * scale -> "success"
      [] v.isnum /\ lo * scale <= v.n /\ v.n < hi * scale -> "warning"
      [] v.isnum /\ v.n >= hi * scale -> "danger"

\* C7: the classifier follows the threshold table for every value: bus
\* factor <3 danger, [3,10) warning, >=10 success; hours <24 success, [24,72)
\* warning, >=72 danger; latency days <3, [3,7), >=7; health >=80 success,
\* [50,80) warning, <50 danger; age days <30, [30,90), >=90; every sentinel
\* gives secondary.  24.0 h is warning, 72.0 h danger, health 80 success, 50
\* warning, 49 danger.
C7_ThresholdTable ==
    pc = "classified" =>
       /\ arg.field = "bus_factor" =>
             metrics.bus_factor_color =
                CASE ~arg.value.isnum -> "secondary"
                  [] arg.value.isnum /\ arg.value.n < 3 -> "danger"
                  [] arg.value.isnum /\ arg.value.n \in 3..9 -> "warning"
                  [] arg.value.isnum /\ arg.value.n >= 10 -> "success"
       /\ arg.field = "avg_response_time_hours" =>
             /\ metrics.response_time_color = TimeBand(arg.value, HoursScale, 24, 72)
             /\ arg.value = Num(24 * HoursScale) => metrics.response_time_color = "warning"
             /\ arg.value = Num(72 * HoursScale) => metrics.response_time_color = "danger"
       /\ arg.field = "avg_pr_latency_days" =>
             metrics.latency_color = TimeBand(arg.value, LatencyScale, 3, 7)
       /\ arg.field = "avg_issue_age_days" =>
             metrics.age_color = TimeBand(arg.value, AgeScale, 30, 90)
       /\ arg.field = "health_percentage" =>
             /\ metrics.health_color =
                   CASE arg.value.n >= 80 -> "success"
                     [] arg.value.n \in 50..79 -> "warning"
                     [] arg.value.n < 50 -> "danger"
             /\ arg.value.n = 80 => metrics.health_color = "success"
             /\ arg.value.n = 50 => metrics.health_color = "warning"
             /\ arg.value.n = 49 => metrics.health_color = "danger"
       /\ arg.field # "health_percentage" => metrics[arg.field] = arg.value

C7_Witness ==
    /\ pc = "classified"
    /\ arg.field = "avg_response_time_hours"
    /\ arg.value = Num(24 * HoursScale)
    /\ metrics.response_time_color = "warning"

\* Which items of a listing count for each collector.
AnsweredIssue(issue) == ~issue.pull_request /\ Len(issue.comments) > 0
TrueIssue(issue) == ~issue.pull_request
EndedPull(pr) ==
    \/ pr.merged /\ pr.merged_at # NoneTime
    \/ ~pr.merged /\ pr.closed_at # NoneTime

\* The sample has one observation per qualifying item of the window, and the
\* metric is a number when there is one, else N/A with band secondary.
SampleOf(window, Qualifies(_), metric, band) ==
    LET q == {i \in 1..Len(window) : Qualifies(window[i])}
    IN  /\ Len(result) = Cardinality(q)
        /\ \A k \in 1..Len(result) : result[k] >= 0
        /\ IF q = {}
           THEN metric = NA /\ metric # Num(0) /\ band = "secondary"
           ELSE metric.isnum /\ band \in Bands \ {"secondary"}

\* C8: in each time-based collector the items that do not qualify
\* (pull-request entries among issues, closed issues nobody commented, pull
\* requests with neither merge nor close timestamp) are skipped and the
\* others still counted; when none qualifies the metric is N/A, never 0, and
\* its band is secondary.
C8_SkipAndUnavailable ==
    /\ pc = "response_time" =>
          SampleOf(Take(arg.items, SampleLimit), AnsweredIssue,
                   metrics.avg_response_time_hours, metrics.response_time_color)
    /\ pc = "issue_age" =>
          SampleOf(arg.items, TrueIssue,
                   metrics.avg_issue_age_days, metrics.age_color)
    /\ pc = "latency" =>
          SampleOf(Take(arg.items, SampleLimit), EndedPull,
                   metrics.avg_pr_latency_days, metrics.latency_color)

C8_Witness ==
    /\ pc = "latency"
    /\ Len(arg.items) = 2
    /\ \A i \in 1..Len(arg.items) :
          ~arg.items[i].merged /\ arg.items[i].closed_at = NoneTime
    /\ metrics.avg_pr_latency_days = NA
    /\ metrics.latency_color = "secondary"

\* C9: pull-request entries are dropped before the 20-item bound is applied:
\* when the listing holds at least 20 closed true issues, the issues examined
\* (asked for their comments) are exactly the 20 most recent true issues; the
\* sample never holds more than 20 observations.
C9_TwentyTrueIssues ==
    pc = "response_time" =>
       LET true_issues == SelectSeq(arg.items, TrueIssue)
       IN  /\ Len(result) <= SampleLimit
           /\ Len(true_issues) >= SampleLimit =>
                 {c.on : c \in calls} =
                    {true_issues[k].created_at : k \in 1..SampleLimit}

\* C10: with both contributor calls answered, bus_factor is an integer of at
\* least 1, never the unavailable sentinel, also when the entries without
\* author hold more than half of the additions.
C10_BusFactorAlwaysNumber ==
    pc = "bus_done" =>
       /\ metrics.bus_factor.isnum
       /\ metrics.bus_factor.n >= 1
       /\ metrics.bus_factor # NA

====
